---- MODULE Spec2Model ----
(***************************************************************************)
(* A model of the harvest-and-replicate pipeline:                          *)
(*   CarScraper.scrape_brands_and_types      (src/CarScraper.py)           *)
(*   HierarchialMainScraper                  (src/hierarchial_code_main.py)*)
(*   SavingOnDrive                           (src/SavingOnDrive.py)        *)
(*                                                                         *)
(* The specifications share the module's variables:                        *)
(*   SpecHarvest  one CarScraper harvesting one category page by page      *)
(*   SpecScenario the same, in the configuration of the "bikes" scenario   *)
(*   SpecFilter   filter_yesterday_data applied to bounded record lists    *)
(*   SpecSheet    the sheet name expression applied to bounded titles      *)
(*   SpecSaving   one direct call of save_files or upload_file             *)
(*   SpecPipeline a run, or one of its harvests page by page                *)
(*   SpecRace     two runs in get_or_create_folder at the same time        *)
(*   Spec         construction and run of HierarchialMainScraper, with     *)
(*                SavingOnDrive's remote calls step by step                *)
(* Text is modelled by its structure: a URL is the sequence of its         *)
(* '/'-separated segments, a date string is a tagged day number, a         *)
(* date_published value is a tagged record saying which text it is.        *)
(***************************************************************************)
EXTENDS Integers, Sequences, FiniteSets, TLC

VARIABLES
    \* ---- CarScraper (one instance)
    num_pages,          \* self.num_pages
    specific_brands,    \* self.specific_brands (a set of titles)
    specific_pages,     \* self.specific_pages, after __init__'s fallback
    specific_pages_arg, \* the specific_pages argument __init__ was given
    page_yields,        \* the record counts a listing page of the site can hold
    brand_elements,     \* the anchors query_selector_all returned
    hpc,                \* position in scrape_brands_and_types
    elem,               \* index of the anchor the for loop is at
    page_num,           \* the page the inner loop is at
    pages_to_scrape,    \* the page budget of the current brand
    brand_data,         \* records accumulated for the current brand
    data,               \* self.data
    requests,           \* history: every DetailsScraping call, in order
    \* ---- filter_yesterday_data on its own
    cars_data,          \* the argument
    filtered_data,      \* the value returned
    fpc,                \* "call" | "returned"
    \* ---- HierarchialMainScraper and SavingOnDrive
    clock,              \* the wall clock's day (datetime.now())
    yesterday,          \* self.yesterday
    folder_ids,         \* self.folder_ids
    pc,                 \* position in __init__ / run / process_category
    cat,                \* index of the category run is at
    all_brand_data,     \* process_category's dataset
    excel_file,         \* save_to_excel's return value
    sheets,             \* the sheets of the artifact written
    drive,              \* the remote store: folders and files
    gi,                 \* get_or_create_yesterday_folders' loop index
    local_files,        \* the artifact files on the local disk
    call,               \* the SavingOnDrive call in progress
    sf,                 \* save_files' frame
    hist,               \* history of the run, read by the properties only
    \* ---- the sheet name expression of save_to_excel on its own
    brand_title,        \* brand['brand_title']
    sheet_title,        \* the sheet name computed
    spc,                \* "call" | "returned"
    \* ---- two runs in get_or_create_folder at the same time
    calls,              \* each run's get_or_create_folder call
    searched_first      \* history: both had searched before either created

hvars == <<num_pages, specific_brands, specific_pages, specific_pages_arg, page_yields,
           brand_elements, hpc, elem,
           page_num, pages_to_scrape, brand_data, data, requests>>
fvars == <<cars_data, filtered_data, fpc>>
rvars == <<clock, yesterday, folder_ids, pc, cat, all_brand_data, excel_file,
           sheets, drive, gi, local_files, call, sf, hist>>
svars == <<brand_title, sheet_title, spc>>
cvars == <<calls, searched_first>>
vars == <<hvars, fvars, rvars, svars, cvars>>

\* ------------------------------------------------------------------ bounds
MaxAnchors == 2     \* anchors on a category page
MaxBudget == 2      \* largest configured page count
MaxYield == 1       \* records on one listing page
MaxLen == 3         \* records in one list handed to the date filter

\* ------------------------------------------------------------------ text
Front(s) == SubSeq(s, 1, Len(s) - 1)
Last(s) == s[Len(s)]

\* sequences over S of length 0..n
SeqUpTo(S, n) == UNION {[1..k -> S] : k \in 0..n}

\* ------------------------------------------------------------ CarScraper
SportBikes == <<"S", "p", "o", "r", "t", " ", "B", "i", "k", "e", "s">>
Scooters == <<"S", "c", "o", "o", "t", "e", "r", "s", "-", "1">>
Titles == {SportBikes, Scooters}
url == <<"https:", "", "q84sale.com", "bikes">>
NoHref == [kind |-> "none", segs |-> <<>>]
RelHref == [kind |-> "rel", segs |-> <<"", "bikes", "sport">>]
AbsHref == [kind |-> "abs", segs |-> <<"https:", "", "q84sale.com", "bikes", "scooters">>]
\* the anchors a category page can hold: title and href attributes
Anchors == {[title |-> SportBikes, href |-> RelHref],
            [title |-> Scooters, href |-> AbsHref],
            [title |-> Scooters, href |-> NoHref]}

\* the specific_pages argument: unset (None) or a number
PageArgs == {[given |-> FALSE, n |-> 0]} \cup {[given |-> TRUE, n |-> k] : k \in 0..MaxBudget}

\* self.specific_pages = specific_pages if specific_pages else num_pages
InitSpecificPages(n, sp) == IF sp.given /\ sp.n # 0 THEN sp.n ELSE n

\* self.url.split('/', 3)[0] + '//' + self.url.split('/', 3)[2]
base_url == <<url[1], "", url[3]>>

\* base_url + brand_link if brand_link.startswith('/') else brand_link
full_brand_link(brand_link) ==
    IF brand_link.kind = "rel" THEN base_url \o Tail(brand_link.segs)
    ELSE brand_link.segs

\* f"{full_brand_link}/{page_num}"
paginated_link(link, p) == link \o <<p>>

\* full_brand_link.rsplit('/', 1)[0] + '/{}'
link_template(link) == Front(link) \o <<"{}">>

\* title in self.specific_brands ? self.specific_pages : self.num_pages
\* (mutant: the override set is not consulted)
PagesToScrapeDefault(title) == num_pages
PagesToScrape(title) ==
    IF title \in specific_brands THEN specific_pages ELSE num_pages

\* what get_car_details gave for one request: it raises, or returns n records
Outcomes == {[kind |-> "raise", n |-> 0]} \cup {[kind |-> "list", n |-> k] : k \in page_yields}
PageRecords(e, p, n) == [i \in 1..n |-> <<e, p, i>>]

BrandEntryOf(e) ==
    [brand_title |-> brand_elements[e].title,
     brand_link |-> link_template(full_brand_link(brand_elements[e].href)),
     available_cars |-> brand_data]

HarvestInit ==
    /\ num_pages \in 0..MaxBudget
    /\ specific_brands \in {{}, {SportBikes}}
    /\ specific_pages_arg \in PageArgs
    /\ specific_pages = InitSpecificPages(num_pages, specific_pages_arg)
    /\ page_yields = 0..MaxYield
    /\ brand_elements = <<>>
    /\ hpc = "goto"
    /\ elem = 0
    /\ page_num = 0
    /\ pages_to_scrape = 0
    /\ brand_data = <<>>
    /\ data = <<>>
    /\ requests = <<>>

\* page.goto / query_selector_all raise: the harvester raises to its caller
NavigationError ==
    /\ hpc = "goto"
    /\ hpc' = "raised"
    /\ UNCHANGED <<num_pages, specific_brands, specific_pages, specific_pages_arg, page_yields,
                   brand_elements, elem, page_num, pages_to_scrape, brand_data, data, requests>>
    /\ UNCHANGED <<fvars, rvars, svars, cvars>>

\* if not brand_elements: return self.data (mutant: no anchors is an error)
AfterQueryPcRaise(anchors) == IF anchors = <<>> THEN "raised" ELSE "element"
AfterQueryPc(anchors) == IF anchors = <<>> THEN "done" ELSE "element"

\* page.goto; brand_elements = query_selector_all(...); if not brand_elements: return
QueryBrands ==
    /\ hpc = "goto"
    /\ \E anchors \in SeqUpTo(Anchors, MaxAnchors) :
        /\ brand_elements' = anchors
        /\ hpc' = AfterQueryPc(anchors)
    /\ elem' = 1
    /\ UNCHANGED <<num_pages, specific_brands, specific_pages, specific_pages_arg, page_yields,
                   page_num, pages_to_scrape, brand_data, data, requests>>
    /\ UNCHANGED <<fvars, rvars, svars, cvars>>

\* self.data.append({'brand_title': ..., 'brand_link': ..., 'available_cars': ...})
\* (mutant: a brand that collected no record is not emitted)
EmitEntryIfRecords(d, entry) == IF entry.available_cars = <<>> THEN d ELSE Append(d, entry)
EmitEntry(d, entry) == Append(d, entry)

\* the inner for loop has ended for this brand: self.data.append(...), next anchor
AfterPagesPc(e) == IF e < Len(brand_elements) THEN "element" ELSE "done"

\* for element in brand_elements: title, href; if brand_link: budget, brand_data = []
NextElement ==
    /\ hpc = "element"
    /\ LET a == brand_elements[elem] IN
       IF a.href.kind = "none"
       THEN /\ hpc' = AfterPagesPc(elem)
            /\ elem' = elem + 1
            /\ UNCHANGED <<pages_to_scrape, brand_data, page_num, data>>
       ELSE LET budget == PagesToScrape(a.title) IN
            /\ pages_to_scrape' = budget
            /\ brand_data' = <<>>
            /\ page_num' = 1
            /\ IF budget >= 1
               THEN /\ hpc' = "page"
                    /\ UNCHANGED <<elem, data>>
               ELSE \* range(1, 1) is empty: the entry is appended at once
                    /\ data' = EmitEntry(data, [BrandEntryOf(elem) EXCEPT !.available_cars = <<>>])
                    /\ hpc' = AfterPagesPc(elem)
                    /\ elem' = elem + 1
    /\ UNCHANGED <<num_pages, specific_brands, specific_pages, specific_pages_arg, page_yields,
                   brand_elements, requests>>
    /\ UNCHANGED <<fvars, rvars, svars, cvars>>

\* what the loop does with one outcome: "continue" to the next page or "break"
\* (mutants: an empty page does not end the loop; an exception is not caught)
PageVerdictNoBreak(o) == IF o.kind = "list" THEN "continue" ELSE "break"
PageVerdictPropagate(o) ==
    IF o.kind = "raise" THEN "propagate" ELSE IF o.n > 0 THEN "continue" ELSE "break"
PageVerdict(o) == IF o.kind = "list" /\ o.n > 0 THEN "continue" ELSE "break"

\* one iteration of: for page_num in range(1, pages_to_scrape + 1)
ScrapePage ==
    /\ hpc = "page"
    /\ \E o \in Outcomes :
        LET link == paginated_link(full_brand_link(brand_elements[elem].href), page_num)
            got == IF o.kind = "list" /\ o.n > 0
                   THEN brand_data \o PageRecords(elem, page_num, o.n) ELSE brand_data
            v == PageVerdict(o)
            more == v = "continue" /\ page_num < pages_to_scrape
        IN
        /\ requests' = Append(requests, [elem |-> elem, page_num |-> page_num,
                                         link |-> link, outcome |-> o])
        /\ brand_data' = got
        /\ IF v = "propagate"
           THEN /\ hpc' = "raised"
                /\ UNCHANGED <<page_num, data, elem>>
           ELSE IF more
           THEN /\ page_num' = page_num + 1
                /\ UNCHANGED <<hpc, data, elem>>
           ELSE /\ data' = EmitEntry(data, [BrandEntryOf(elem) EXCEPT !.available_cars = got])
                /\ hpc' = AfterPagesPc(elem)
                /\ elem' = elem + 1
                /\ UNCHANGED page_num
    /\ UNCHANGED <<num_pages, specific_brands, specific_pages, specific_pages_arg, page_yields,
                   brand_elements, pages_to_scrape>>
    /\ UNCHANGED <<fvars, rvars, svars, cvars>>

HarvestNext == NavigationError \/ QueryBrands \/ NextElement \/ ScrapePage

\* ------------------------------------------------ properties of the harvest
\* the requests made for anchor e, in the order they were made
RequestsOf(e) == SelectSeq(requests, LAMBDA r : r.elem = e)
GotRecords(r) == r.outcome.kind = "list" /\ r.outcome.n > 0
\* the anchors that have an href, in page order
WithHref == SelectSeq([i \in 1..Len(brand_elements) |-> i],
                      LAMBDA i : brand_elements[i].href.kind # "none")
\* the page budget of anchor e, from the configuration
BudgetOf(e) ==
    IF brand_elements[e].title \in specific_brands THEN specific_pages ELSE num_pages
\* the records of the pages of e that returned records, in request order
RECURSIVE RecordsOf(_)
RecordsOf(rs) ==
    IF rs = <<>> THEN <<>>
    ELSE (IF GotRecords(Head(rs))
          THEN [i \in 1..Head(rs).outcome.n |-> <<Head(rs).elem, Head(rs).page_num, i>>]
          ELSE <<>>) \o RecordsOf(Tail(rs))

\* C1: for every brand, the detail pages are requested in strictly increasing
\* page-number order starting at 1, at most page_budget pages are requested,
\* and after a page that returned no record or raised no further page of that
\* brand is requested.
C1_PaginationOrder ==
    \A e \in 1..Len(brand_elements) :
        LET rs == RequestsOf(e) IN
        /\ rs # <<>> => rs[1].page_num = 1
        /\ \A i \in 1..Len(rs) - 1 : rs[i + 1].page_num > rs[i].page_num
        /\ Len(rs) <= BudgetOf(e)
        /\ \A i \in 1..Len(rs) - 1 : GotRecords(rs[i])

\* a brand with budget left stopped at an empty first page, and the harvest ended
C1_Witness ==
    /\ hpc = "done"
    /\ \E e \in 1..Len(brand_elements) :
        /\ BudgetOf(e) >= 2
        /\ Len(RequestsOf(e)) = 1
        /\ RequestsOf(e)[1].outcome = [kind |-> "list", n |-> 0]

\* anchor e has been harvested to its end: its budget is used up or its last
\* request ended the pagination
HarvestedFully(e) ==
    LET rs == RequestsOf(e) IN
    IF BudgetOf(e) <= 0 THEN rs = <<>>
    ELSE /\ rs # <<>>
         /\ Len(rs) = BudgetOf(e) \/ ~GotRecords(Last(rs))

\* C2: an extractor error on page k of a brand never makes the harvester raise;
\* the brand's entry holds exactly the records of its pages 1..k-1, and every
\* brand, before or after the failing one, is harvested to its own end and
\* emitted with the records its own pages returned.
C2_BrandIsolation ==
    /\ hpc = "raised" => requests = <<>>
    /\ Len(data) <= Len(WithHref)
    /\ \A j \in 1..Len(data) :
        /\ data[j].available_cars = RecordsOf(RequestsOf(WithHref[j]))
        /\ HarvestedFully(WithHref[j])
    /\ hpc = "done" => Len(data) = Len(WithHref)

\* the first brand's page 2 raised after page 1 returned records, and the
\* second brand was harvested with records of its own
C2_Witness ==
    /\ hpc = "done"
    /\ Len(data) = 2
    /\ Len(RequestsOf(WithHref[1])) = 2
    /\ RequestsOf(WithHref[1])[2].outcome.kind = "raise"
    /\ data[1].available_cars = <<<<WithHref[1], 1, 1>>>>
    /\ data[2].available_cars # <<>>

\* the page budget the claim gives anchor e: the override count as it was
\* passed when the title is in the override set (the default count when none
\* was passed), the default count otherwise
ClaimedBudget(e) ==
    IF brand_elements[e].title \in specific_brands /\ specific_pages_arg.given
    THEN specific_pages_arg.n
    ELSE num_pages

\* C14 (as claimed): the page budget of a brand is the override count when its
\* title is in the override set, also when that count is 0, and the default
\* count otherwise; no more pages than that are requested for the brand.
C14_BudgetIsOverride ==
    /\ hpc = "page" => pages_to_scrape = ClaimedBudget(elem)
    /\ \A e \in 1..Len(brand_elements) : Len(RequestsOf(e)) <= ClaimedBudget(e)

\* ---- the "bikes" scenario: CarScraper(url, 1, ["Sport Bikes"], 3) on a site
\* whose listing pages hold 0, 2, 3 or 5 records
ScenarioInit ==
    /\ num_pages = 1
    /\ specific_brands = {SportBikes}
    /\ specific_pages_arg = [given |-> TRUE, n |-> 3]
    /\ specific_pages = InitSpecificPages(num_pages, specific_pages_arg)
    /\ page_yields = {0, 2, 3, 5}
    /\ brand_elements = <<>>
    /\ hpc = "goto"
    /\ elem = 0
    /\ page_num = 0
    /\ pages_to_scrape = 0
    /\ brand_data = <<>>
    /\ data = <<>>
    /\ requests = <<>>

\* the records the scenario puts on page p of a brand
ScenarioYield(title, p) ==
    IF title = SportBikes THEN (IF p = 1 THEN 5 ELSE IF p = 2 THEN 3 ELSE 0)
    ELSE (IF p = 1 THEN 2 ELSE 0)
\* the category page lists SportBikes, then Scooters, and every request made
\* was answered as the scenario says
ScenarioHappened ==
    /\ brand_elements = <<[title |-> SportBikes, href |-> RelHref],
                          [title |-> Scooters, href |-> AbsHref]>>
    /\ \A i \in DOMAIN requests :
        requests[i].outcome =
            [kind |-> "list",
             n |-> ScenarioYield(brand_elements[requests[i].elem].title, requests[i].page_num)]
PagesRequested(e) == [i \in DOMAIN RequestsOf(e) |-> RequestsOf(e)[i].page_num]

\* C15: every brand's records are the in-order concatenation of the records of
\* the pages requested for it; and in the scenario (default 1 page, 3 pages for
\* SportBikes whose pages hold 5, 3, 0 records, Scooters with 2 records on page
\* 1) exactly pages 1, 2, 3 of SportBikes and page 1 of Scooters are requested
\* and the harvester returns 8 records for SportBikes and 2 for Scooters.
C15_Scenario ==
    /\ \A j \in 1..Len(data) : data[j].available_cars = RecordsOf(RequestsOf(WithHref[j]))
    /\ (hpc = "done" /\ ScenarioHappened) =>
        /\ PagesRequested(1) = <<1, 2, 3>>
        /\ PagesRequested(2) = <<1>>
        /\ Len(data) = 2
        /\ data[1].brand_title = SportBikes
        /\ data[1].available_cars = PageRecords(1, 1, 5) \o PageRecords(1, 2, 3)
        /\ data[2].brand_title = Scooters
        /\ data[2].available_cars = PageRecords(2, 1, 2)
        /\ Len(data[1].available_cars) + Len(data[2].available_cars) = 10

\* the scenario ran to its end: four requests, 8 and 2 records
C15_Witness ==
    /\ hpc = "done"
    /\ ScenarioHappened
    /\ Len(requests) = 4
    /\ Len(data[1].available_cars) = 8
    /\ Len(data[2].available_cars) = 2

\* C18: when the entry page was loaded and queried (the for loop's index is set)
\* and held no brand anchor, the harvester has returned, its result is the
\* empty sequence and no DetailsScraping request was made.
C18_NoBrandsEmpty ==
    (elem >= 1 /\ brand_elements = <<>>) =>
        /\ hpc = "done"
        /\ data = <<>>
        /\ requests = <<>>

\* the page held no anchor and the harvester returned
C18_Witness ==
    /\ hpc = "done"
    /\ elem = 1
    /\ brand_elements = <<>>
    /\ data = <<>>

\* template.format(p): the placeholder segment replaced by the page number
Substituted(template, p) ==
    [i \in DOMAIN template |-> IF template[i] = "{}" THEN p ELSE template[i]]

\* C24 (as claimed): substituting page number p into the link template of a
\* brand's entry gives exactly the URL that was requested for page p of that
\* brand.
C24_TemplateGivesRequests ==
    \A j \in 1..Len(data) :
        \A i \in DOMAIN RequestsOf(WithHref[j]) :
            LET r == RequestsOf(WithHref[j])[i] IN
            Substituted(data[j].brand_link, r.page_num) = r.link

\* the anchors the for loop has finished with, and those of them with an href,
\* in page order
Finished(e) == e < elem
FinishedWithHref == SelectSeq(WithHref, Finished)

\* C26: the entries emitted are, in anchor order, one for each anchor with an
\* href that the loop has finished with (every such anchor once the harvester
\* has returned), whether it collected records or not and whether or not its
\* first page raised; an anchor without an href gets no entry and no request.
C26_OneEntryPerHref ==
    /\ Len(data) = Len(FinishedWithHref)
    /\ \A j \in 1..Len(data) :
        data[j].brand_title = brand_elements[FinishedWithHref[j]].title
    /\ hpc = "done" => FinishedWithHref = WithHref
    /\ \A e \in 1..Len(brand_elements) :
        brand_elements[e].href.kind = "none" => RequestsOf(e) = <<>>

\* an anchor without an href, then a brand whose first page raised: the
\* harvester returned one entry, with no record
C26_Witness ==
    /\ hpc = "done"
    /\ Len(brand_elements) = 2
    /\ brand_elements[1].href.kind = "none"
    /\ brand_elements[2].href.kind # "none"
    /\ Len(requests) = 1
    /\ requests[1].elem = 2
    /\ requests[1].outcome.kind = "raise"
    /\ Len(data) = 1
    /\ data[1].available_cars = <<>>

\* no CarScraper is running
HarvestIdle ==
    /\ num_pages = 0
    /\ specific_brands = {}
    /\ specific_pages = 0
    /\ specific_pages_arg = [given |-> FALSE, n |-> 0]
    /\ page_yields = {}
    /\ brand_elements = <<>>
    /\ hpc = "idle"
    /\ elem = 0
    /\ page_num = 0
    /\ pages_to_scrape = 0
    /\ brand_data = <<>>
    /\ data = <<>>
    /\ requests = <<>>

\* ------------------------------------------------- filter_yesterday_data
Days == 1..3

\* a date_published value: the text of a timestamp in '%Y-%m-%d %H:%M:%S'
\* ("ts"), the same with fields not zero-padded, which strptime accepts
\* ("ts_loose"), a date with no time part ("date_only"), any other text
\* ("garbage"), or None ("none")
DateValues ==
    [kind : {"ts", "ts_loose", "date_only"}, day : Days]
    \cup [kind : {"garbage", "none"}, day : {0}]

\* datetime.strptime(v, '%Y-%m-%d %H:%M:%S'): a datetime, ValueError or TypeError
strptime(v) ==
    CASE v.kind \in {"ts", "ts_loose"} -> [ok |-> TRUE, day |-> v.day, err |-> "-"]
      [] v.kind = "none" -> [ok |-> FALSE, day |-> 0, err |-> "TypeError"]
      [] OTHER -> [ok |-> FALSE, day |-> 0, err |-> "ValueError"]

\* .strftime('%Y-%m-%d'): the canonical date text of a day
strftime(d) == <<"%Y-%m-%d", d>>

\* the body of the for loop: the exceptions the except clause names are swallowed
\* (mutant: the date is not compared with yesterday)
KeepCarAnyDate(car, yd) == strptime(car.date_published).ok
KeepCar(car, yd) ==
    LET t == strptime(car.date_published) IN
    IF t.ok THEN strftime(t.day) = yd
    ELSE FALSE  \* except (ValueError, TypeError): continue

RECURSIVE FilterLoop(_, _, _)
FilterLoop(cars, acc, yd) ==
    IF cars = <<>> THEN acc
    ELSE FilterLoop(Tail(cars),
                    IF KeepCar(Head(cars), yd) THEN Append(acc, Head(cars)) ELSE acc,
                    yd)

filter_yesterday_data(cars, yd) == FilterLoop(cars, <<>>, yd)

\* a list of cars with the given date_published values; id is the position
CarsOf(dates) == [i \in 1..Len(dates) |-> [id |-> i, date_published |-> dates[i]]]

FilterIdle ==
    /\ cars_data = <<>>
    /\ filtered_data = <<>>
    /\ fpc = "idle"

FilterInit ==
    /\ \E dates \in SeqUpTo(DateValues, MaxLen) : cars_data = CarsOf(dates)
    /\ filtered_data = <<>>
    /\ fpc = "call"

FilterCall ==
    /\ fpc = "call"
    /\ filtered_data' = filter_yesterday_data(cars_data, yesterday)
    /\ fpc' = "returned"
    /\ UNCHANGED cars_data
    /\ UNCHANGED <<hvars, rvars, svars, cvars>>


\* ------------------------------------------------------- save_to_excel
MaxCars == 2        \* records in one harvested dataset
MaxDay == 3         \* the last day the wall clock reaches
MaxLost == 1        \* remote creates whose response is lost, per run

MaxSheetName == 31
\* the alphanumeric characters of the alphabet: Latin letters and digits, and
\* the Arabic letter dal and the Arabic-Indic digit three
AlnumChars == {"S", "p", "o", "r", "t", "B", "i", "k", "e", "s", "c", "1",
               "a", "7", "U+062F", "U+0663"}
NoData == <<"N", "o", " ", "D", "a", "t", "a">>

isalnum(x) == x \in AlnumChars

Min(a, b) == IF a < b THEN a ELSE b

\* "".join(x for x in brand['brand_title'] if x.isalnum())[:31]
\* (mutant: the title is cut to 31 characters before it is filtered)
sheet_name_cut_first(title) ==
    SelectSeq(SubSeq(title, 1, Min(Len(title), MaxSheetName)), isalnum)
sheet_name(title) ==
    LET kept == SelectSeq(title, isalnum) IN
    SubSeq(kept, 1, IF Len(kept) < MaxSheetName THEN Len(kept) ELSE MaxSheetName)

\* ---- the sheet name expression applied to bounded titles
MaxBlock == 3       \* characters in the block a title repeats
MaxRepeat == 20     \* repetitions of the block in a title

SheetChars == {"a", "7", "U+062F", "U+0663", " ", "-"}
RECURSIVE Repeat(_, _)
Repeat(block, k) == IF k = 0 THEN <<>> ELSE block \o Repeat(block, k - 1)
\* brand titles: a block of up to MaxBlock characters, up to MaxRepeat times
SheetTitles ==
    {Repeat(block, k) : block \in UNION {[1..n -> SheetChars] : n \in 1..MaxBlock},
                        k \in 0..MaxRepeat}

SheetIdle ==
    /\ brand_title = <<>>
    /\ sheet_title = <<>>
    /\ spc = "idle"

SheetInit ==
    /\ brand_title \in SheetTitles
    /\ sheet_title = <<>>
    /\ spc = "call"

SheetNameCall ==
    /\ spc = "call"
    /\ sheet_title' = sheet_name(brand_title)
    /\ spc' = "returned"
    /\ UNCHANGED brand_title
    /\ UNCHANGED <<hvars, fvars, rvars, cvars>>

\* the positions of the title that hold an alphanumeric character, and the
\* k-th of them
AlnumPositions == {i \in DOMAIN brand_title : brand_title[i] \in AlnumChars}
NthAlnum(k) == CHOOSE i \in AlnumPositions : Cardinality({j \in AlnumPositions : j <= i}) = k

\* C19: the sheet name has as many characters as the title has alphanumeric
\* ones, but at most 31, and its k-th character is the title's k-th
\* alphanumeric character, Latin or not.
C19_SheetName ==
    spc = "returned" =>
        /\ Len(sheet_title) = Min(Cardinality(AlnumPositions), 31)
        /\ \A k \in 1..Len(sheet_title) : sheet_title[k] = brand_title[NthAlnum(k)]

\* a title of more than 31 alphanumeric characters with spaces or punctuation
\* and non-Latin characters among its first ones gave a 31-character name
C19_Witness ==
    /\ spc = "returned"
    /\ Cardinality(AlnumPositions) > 31
    /\ Len(sheet_title) = 31
    /\ \E i \in 1..3 : brand_title[i] \in {" ", "-"}
    /\ \E i \in 1..3 : brand_title[i] \in {"U+062F", "U+0663"}

\* f"{category_name}.xlsx"; None is the empty name
filename(category_name) == <<category_name, ".xlsx">>
NoFile == <<>>

\* for brand in brand_data: one sheet per brand with a retained record
RECURSIVE WriteSheets(_, _, _)
WriteSheets(brands, written, yd) ==
    IF brands = <<>> THEN written
    ELSE LET yesterday_cars == filter_yesterday_data(Head(brands).available_cars, yd) IN
         WriteSheets(Tail(brands),
                     IF yesterday_cars # <<>>
                     THEN Append(written, [sheet_name |-> sheet_name(Head(brands).brand_title),
                                           rows |-> yesterday_cars])
                     ELSE written,
                     yd)

\* save_to_excel: the file name returned (or None) and the sheets written.
\* Leaving the ExcelWriter block with no sheet written makes openpyxl refuse to
\* save the workbook ("At least one sheet must be visible"); the except clause
\* turns that into return None.
save_to_excel(category_name, brands, yd) ==
    IF brands = <<>>
    THEN [file |-> filename(category_name),
          sheets |-> <<[sheet_name |-> NoData, rows |-> <<>>]>>]
    ELSE LET written == WriteSheets(brands, <<>>, yd) IN
         IF written = <<>>
         THEN [file |-> NoFile, sheets |-> <<>>]
         ELSE [file |-> filename(category_name), sheets |-> written]

\* the datasets scrape_brands_and_types can hand to process_category
RunTitles == <<SportBikes, Scooters>>
RunDates == {[kind |-> "ts", day |-> 1], [kind |-> "ts", day |-> 2],
             [kind |-> "garbage", day |-> 0], [kind |-> "none", day |-> 0]}
CarLists == {CarsOf(dates) : dates \in SeqUpTo(RunDates, MaxCars)}
RECURSIVE TotalCars(_)
TotalCars(cars) == IF cars = <<>> THEN 0 ELSE Len(Head(cars)) + TotalCars(Tail(cars))
Datasets ==
    UNION {{[b \in 1..k |-> [brand_title |-> RunTitles[b], available_cars |-> cars[b]]] :
                cars \in {cs \in [1..k -> CarLists] : TotalCars(cs) <= MaxCars}} :
           k \in 0..Len(RunTitles)}

\* ---------------------------------------------------------- SavingOnDrive
parent_folder_ids == <<"P1", "P2">>
gf_stop_after_attempt == 3
uf_stop_after_attempt == 3
\* (mutant: one more round of the while loop)
max_retries_more == 3 + 1
max_retries == 3

\* what a call returned: an id, None, or an exception
IdResult(i) == [kind |-> "id", id |-> i]
NoneResult == [kind |-> "none", id |-> 0]
HttpError == [kind |-> "HttpError", id |-> 0]
RetryError == [kind |-> "RetryError", id |-> 0]
IsRaise(r) == r.kind \in {"HttpError", "RetryError"}

NoCall ==
    [fn |-> "none", stage |-> "-", attempt |-> 0, name |-> strftime(0), parent |-> "-",
     file |-> NoFile, folder |-> 0, result |-> NoneResult, errs |-> <<>>]
GetOrCreateCall(name, parent) ==
    [fn |-> "get_or_create_folder", stage |-> "list", attempt |-> 1, name |-> name,
     parent |-> parent, file |-> NoFile, folder |-> 0, result |-> NoneResult, errs |-> <<>>]
UploadCall(file, folder) ==
    [fn |-> "upload_file", stage |-> "exec", attempt |-> 1, name |-> strftime(0),
     parent |-> "-", file |-> file, folder |-> folder, result |-> NoneResult, errs |-> <<>>]

Returns(c, r) == [c EXCEPT !.stage = "ret", !.result = r]

\* @retry(stop_after_attempt(n), retry_if_exception_type(network errors)): the
\* function is executed again from its first line, or RetryError is raised
AfterNetworkError(c, n, first) ==
    IF c.attempt < n THEN [c EXCEPT !.attempt = @ + 1, !.stage = first]
    ELSE Returns(c, RetryError)

\* the classes of exception an execution can raise: one of socket.error,
\* ssl.SSLError, ConnectionError ("network"), or HttpError
NetworkError == "network"
\* retry_if_exception_type((socket.error, ssl.SSLError, ConnectionError))
\* (mutant: every exception is retried)
retry_if_any_exception(e) == TRUE
retry_if_exception_type(e) == e = NetworkError

\* an execution of the decorated function raised e (errs: what the executions
\* of this invocation raised, in order): tenacity re-executes or lets it out
Raises(c, e, n, first) ==
    LET noted == [c EXCEPT !.errs = Append(@, e)] IN
    IF retry_if_exception_type(e) THEN AfterNetworkError(noted, n, first)
    ELSE Returns(noted, HttpError)

\* except HttpError as e: if e.resp.status == 404: return None
NotFound(c) == Returns([c EXCEPT !.errs = Append(@, "HttpError404")], NoneResult)

\* files().list(q = name, parent, folder, not trashed): the ids found
\* (mutant: the search finds nothing)
MatchingFoldersNone(name, parent) == {}
MatchingFolders(name, parent) ==
    {i \in 1..Len(drive.folders) : drive.folders[i] = [name |-> name, parent |-> parent]}

NoSaveFiles ==
    [active |-> FALSE, yesterday |-> strftime(0), files |-> <<>>, pi |-> 0, fi |-> 0,
     stage |-> "-", folder_id |-> 0, retry_count |-> 0]

\* save_files' frame at its first line:
\* yesterday = (datetime.now() - timedelta(days=1)).strftime('%Y-%m-%d')
SaveFilesFrame(files) ==
    [active |-> TRUE, yesterday |-> strftime(clock - 1), files |-> files, pi |-> 1, fi |-> 1,
     stage |-> "resolve", folder_id |-> 0, retry_count |-> 0]

NoHist ==
    [returned |-> {}, tried |-> {}, resolved |-> {}, failed |-> {}, uploaded |-> {},
     abandoned |-> {}, attempts |-> 0, lost |-> 0, processed |-> <<>>, auth |-> <<>>]

\* ------------------------------------------- the remote calls, one execution each

\* results = self.service.files().list(...).execute(); files[0]['id'] if files
ListResults(c) ==
    {Raises(c, e, gf_stop_after_attempt, "list") : e \in {NetworkError, "HttpError"}}
    \cup (IF c.parent \notin drive.parents
          THEN {NotFound(c)}
          ELSE IF MatchingFolders(c.name, c.parent) # {}
          THEN {Returns(c, IdResult(i)) : i \in MatchingFolders(c.name, c.parent)}
          ELSE {[c EXCEPT !.stage = "create"]})

NoteReturn(h, c) ==
    IF c.stage = "ret" /\ c.result.kind = "id"
    THEN [h EXCEPT !.returned = @ \cup {[name |-> c.name, parent |-> c.parent, id |-> c.result.id,
                                         by |-> IF pc = "folders" THEN "__init__" ELSE "save_files"]}]
    ELSE h

ListFolders ==
    /\ call.fn = "get_or_create_folder"
    /\ call.stage = "list"
    /\ \E c \in ListResults(call) :
        /\ call' = c
        /\ hist' = NoteReturn(hist, c)
    /\ UNCHANGED <<clock, yesterday, folder_ids, pc, cat, all_brand_data, excel_file,
                   sheets, drive, gi, local_files, sf>>
    /\ UNCHANGED <<hvars, fvars, svars, cvars>>

\* how a files().create(...).execute() can end; a response is lost (the create
\* took effect, the caller sees a network error) at most MaxLost times a run
CreateOutcomes ==
    {"ok", "network", "http"} \cup (IF hist.lost < MaxLost THEN {"lost"} ELSE {})

\* the remote store after files().create(body = folder metadata): the call
\* carries no precondition and the store accepts folders of one name under one
\* parent (mutant: the store creates the folder only if it is absent)
FoldersAfterCreateIfAbsent(folders, f) ==
    IF \E i \in DOMAIN folders : folders[i] = f THEN folders ELSE Append(folders, f)
FoldersAfterCreate(folders, f) == Append(folders, f)

\* where tenacity resumes get_or_create_folder after a create that raised a
\* network error: the decorated function is executed again from its first
\* line, the search (mutant: only the create is issued again)
AfterCreateRetryStageCreate == "create"
AfterCreateRetryStage == "list"

\* folder = self.service.files().create(body = folder metadata).execute()
\* o: the call succeeds ("ok"), fails before it takes effect ("network", "http"),
\* or takes effect and its response is lost ("lost")
CreateFolder ==
    /\ call.fn = "get_or_create_folder"
    /\ call.stage = "create"
    /\ \E o \in CreateOutcomes :
        LET made == o \in {"ok", "lost"}
            c == CASE o = "ok" -> Returns(call, IdResult(Len(drive.folders) + 1))
                   [] o = "http" -> Raises(call, "HttpError", gf_stop_after_attempt, "list")
                   [] OTHER -> Raises(call, NetworkError, gf_stop_after_attempt, AfterCreateRetryStage)
        IN
        /\ drive' = IF made
                    THEN [drive EXCEPT !.folders = FoldersAfterCreate(@, [name |-> call.name, parent |-> call.parent])]
                    ELSE drive
        /\ call' = c
        /\ hist' = NoteReturn([hist EXCEPT !.lost = IF o = "lost" THEN @ + 1 ELSE @], c)
    /\ UNCHANGED <<clock, yesterday, folder_ids, pc, cat, all_brand_data, excel_file,
                   sheets, gi, local_files, sf>>
    /\ UNCHANGED <<hvars, fvars, svars, cvars>>

\* os.path.basename(file_name): the artifacts are written to the working
\* directory, so their names have no directory part to strip
basename(file_name) == file_name

\* if not os.path.exists(file_name) ... if not folder_id ...
\* (mutant: neither is checked)
InvalidUploadUnchecked(c) == FALSE
InvalidUpload(c) == c.file \notin local_files \/ c.folder = 0

\* one execution of upload_file's body
ExecUpload ==
    /\ call.fn = "upload_file"
    /\ call.stage = "exec"
    /\ IF InvalidUpload(call)
       THEN \* File not found / Invalid folder ID: return None
            /\ call' = Returns(call, NoneResult)
            /\ UNCHANGED <<drive, hist>>
       ELSE \E o \in CreateOutcomes :
            LET made == o \in {"ok", "lost"} IN
            /\ drive' = IF made
                        THEN [drive EXCEPT !.files = Append(@, [name |-> basename(call.file), folder |-> call.folder])]
                        ELSE drive
            /\ call' = CASE o = "ok" -> Returns(call, IdResult(Len(drive.files) + 1))
                         [] o = "http" -> Raises(call, "HttpError", uf_stop_after_attempt, "exec")
                         [] OTHER -> Raises(call, NetworkError, uf_stop_after_attempt, "exec")
            /\ hist' = [hist EXCEPT !.attempts = @ + 1,
                                     !.lost = IF o = "lost" THEN @ + 1 ELSE @]
    /\ UNCHANGED <<clock, yesterday, folder_ids, pc, cat, all_brand_data, excel_file,
                   sheets, gi, local_files, sf>>
    /\ UNCHANGED <<hvars, fvars, svars, cvars>>

\* ------------------------------------------------ HierarchialMainScraper
\* the configuration mapping run iterates over: its category names, in order
automotives_data == <<"dealerships", "bikes">>
NumCategories == Len(automotives_data)

RunInit ==
    /\ clock = 2
    /\ yesterday = strftime(0)
    /\ folder_ids = <<>>
    /\ pc = "new"
    /\ cat = 0
    /\ all_brand_data = <<>>
    /\ excel_file = NoFile
    /\ sheets = <<>>
    /\ \E existing \in SUBSET {1, 2} : \E dated \in SUBSET existing :
        drive = [parents |-> {parent_folder_ids[i] : i \in existing},
                 folders |-> [n \in 1..Cardinality(dated) |->
                                 [name |-> strftime(clock - 1),
                                  parent |-> parent_folder_ids[IF n = 1 /\ 1 \in dated THEN 1 ELSE 2]]],
                 files |-> <<>>]
    /\ gi = 0
    /\ local_files = {}
    /\ call = NoCall
    /\ sf = NoSaveFiles
    /\ hist = NoHist

\* the wall clock passes midnight. After construction the clock is read by
\* save_files' first line only, so a midnight passed anywhere since the last
\* read is taken just before upload_to_drive
Tick ==
    /\ pc = "upload"
    /\ clock < MaxDay
    /\ clock' = clock + 1
    /\ UNCHANGED <<yesterday, folder_ids, pc, cat, all_brand_data, excel_file, sheets,
                   drive, gi, local_files, call, sf, hist>>
    /\ UNCHANGED <<hvars, fvars, svars, cvars>>

\* __init__: self.yesterday = (datetime.now() - timedelta(days=1)).strftime('%Y-%m-%d')
Construct ==
    /\ pc = "new"
    /\ yesterday' = strftime(clock - 1)
    /\ pc' = "authenticate"
    /\ UNCHANGED <<clock, folder_ids, cat, all_brand_data, excel_file, sheets,
                   drive, gi, local_files, call, sf, hist>>
    /\ UNCHANGED <<hvars, fvars, svars, cvars>>

\* authenticate's except clause logs and re-raises, and __init__ has no handler:
\* the exception leaves the constructor (mutant: it is swallowed)
AfterAuthenticateRaisedSwallowed == "folders"
AfterAuthenticateRaised == "aborted"

\* self.drive_saver.authenticate(): it succeeds, or it logs and re-raises
Authenticate ==
    /\ pc = "authenticate"
    /\ \E ok \in BOOLEAN :
        /\ pc' = IF ok THEN "folders" ELSE AfterAuthenticateRaised
        /\ hist' = [hist EXCEPT !.auth = Append(@, IF ok THEN "ok" ELSE "raised")]
    /\ gi' = IF pc' = "folders" THEN 1 ELSE gi
    /\ UNCHANGED <<clock, yesterday, folder_ids, cat, all_brand_data, excel_file, sheets,
                   drive, local_files, call, sf>>
    /\ UNCHANGED <<hvars, fvars, svars, cvars>>

\* get_or_create_yesterday_folders: the call for the parent the loop is at
FoldersCall ==
    /\ pc = "folders"
    /\ call.fn = "none"
    /\ call' = GetOrCreateCall(yesterday, parent_folder_ids[gi])
    /\ UNCHANGED <<clock, yesterday, folder_ids, pc, cat, all_brand_data, excel_file, sheets,
                   drive, gi, local_files, sf, hist>>
    /\ UNCHANGED <<hvars, fvars, svars, cvars>>

\* if folder_id: folder_ids.append(folder_id); an exception leaves __init__
FoldersReturn ==
    /\ pc = "folders"
    /\ call.stage = "ret"
    /\ folder_ids' = IF call.result.kind = "id" THEN Append(folder_ids, call.result.id)
                     ELSE folder_ids
    /\ gi' = gi + 1
    /\ pc' = IF IsRaise(call.result) THEN "aborted"
             ELSE IF gi < Len(parent_folder_ids) THEN "folders" ELSE "scrape"
    /\ cat' = IF pc' = "scrape" THEN 1 ELSE cat
    /\ call' = NoCall
    /\ UNCHANGED <<clock, yesterday, all_brand_data, excel_file, sheets,
                   drive, local_files, sf, hist>>
    /\ UNCHANGED <<hvars, fvars, svars, cvars>>

\* process_category: the try block around CarScraper(...).scrape_brands_and_types();
\* an exception is logged and leaves all_brand_data empty
Scrape ==
    /\ pc = "scrape"
    /\ \E raised \in BOOLEAN, brands \in Datasets :
        all_brand_data' = IF raised THEN <<>> ELSE brands
    /\ pc' = "save_to_excel"
    /\ UNCHANGED <<clock, yesterday, folder_ids, cat, excel_file, sheets,
                   drive, gi, local_files, call, sf, hist>>
    /\ UNCHANGED <<hvars, fvars, svars, cvars>>

\* excel_file = self.save_to_excel(category_name, all_brand_data)
SaveToExcel ==
    /\ pc = "save_to_excel"
    /\ LET r == save_to_excel(automotives_data[cat], all_brand_data, yesterday) IN
        /\ excel_file' = r.file
        /\ sheets' = r.sheets
        /\ local_files' = IF r.file = NoFile THEN local_files ELSE local_files \cup {r.file}
    /\ pc' = "upload"
    /\ UNCHANGED <<clock, yesterday, folder_ids, cat, all_brand_data,
                   drive, gi, call, sf, hist>>
    /\ UNCHANGED <<hvars, fvars, svars, cvars>>

\* process_category returns: run's for loop takes the next category, or ends
EndCategoryPc == IF cat < NumCategories THEN "scrape" ELSE "done"
EndCategoryCat == IF cat < NumCategories THEN cat + 1 ELSE cat

\* self.drive_saver.save_files([file_name]) is an ordinary call: upload_to_drive
\* and process_category wait in it (mutant: the call is detached and
\* process_category returns while save_files runs)
AfterSaveFilesCalledPcDetached == EndCategoryPc
AfterSaveFilesCalledPc == "save_files"

\* if excel_file: self.upload_to_drive(excel_file), which returns at once when
\* self.folder_ids is empty and calls save_files([file_name]) otherwise.
\* The dataset and the sheets are not read again and are dropped here.
UploadToDrive ==
    /\ pc = "upload"
    /\ IF excel_file = NoFile
       THEN /\ pc' = EndCategoryPc
            /\ cat' = EndCategoryCat
            /\ hist' = [hist EXCEPT !.processed = Append(@, cat)]
            /\ UNCHANGED sf
       ELSE IF folder_ids = <<>>
       THEN /\ pc' = "remove"
            /\ UNCHANGED <<cat, sf, hist>>
       ELSE /\ pc' = AfterSaveFilesCalledPc
            /\ sf' = SaveFilesFrame(<<excel_file>>)
            /\ hist' = [hist EXCEPT !.tried = {}, !.resolved = {}, !.failed = {},
                                    !.uploaded = {}, !.abandoned = {}, !.attempts = 0]
            /\ UNCHANGED cat
    /\ all_brand_data' = <<>>
    /\ sheets' = <<>>
    /\ UNCHANGED <<clock, yesterday, folder_ids, excel_file, drive, gi, local_files, call>>
    /\ UNCHANGED <<hvars, fvars, svars, cvars>>

\* ----------------------------------------------------------- save_files

\* what save_files does with get_or_create_folder's result: "upload" into the
\* folder, "skip" the destination (if not folder_id: continue), or "raise"
\* (the exception leaves the for loop; the outer except logs and re-raises)
ResolveVerdict(r) ==
    CASE r.kind = "id" -> "upload"
      [] r.kind = "none" -> "skip"
      [] OTHER -> "raise"

\* upload_to_drive's try/except around save_files: the exception is logged and
\* process_category goes on to os.remove (mutant: no except clause)
AfterSaveFilesRaisedUncaught == "aborted"
AfterSaveFilesRaised == "remove"

\* for parent_folder_id in self.parent_folder_ids:
\*     folder_id = self.get_or_create_folder(yesterday, parent_folder_id)
SaveResolve ==
    /\ pc = "save_files"
    /\ sf.stage = "resolve"
    /\ call.fn = "none"
    /\ IF sf.pi > Len(parent_folder_ids)
       THEN \* "Files upload process completed"
            /\ sf' = [sf EXCEPT !.active = FALSE, !.stage = "returned"]
            /\ pc' = "remove"
            /\ UNCHANGED <<call, hist>>
       ELSE /\ call' = GetOrCreateCall(sf.yesterday, parent_folder_ids[sf.pi])
            /\ hist' = [hist EXCEPT !.tried = @ \cup {sf.pi}]
            /\ UNCHANGED <<sf, pc>>
    /\ UNCHANGED <<clock, yesterday, folder_ids, cat, all_brand_data, excel_file, sheets,
                   drive, gi, local_files>>
    /\ UNCHANGED <<hvars, fvars, svars, cvars>>

\* get_or_create_folder has ended for the destination the loop is at
SaveResolved ==
    /\ pc = "save_files"
    /\ call.fn = "get_or_create_folder"
    /\ call.stage = "ret"
    /\ LET v == ResolveVerdict(call.result) IN
        /\ sf' = CASE v = "upload" -> [sf EXCEPT !.stage = "upload", !.folder_id = call.result.id,
                                                 !.fi = 1, !.retry_count = 0]
                   [] v = "skip" -> [sf EXCEPT !.pi = @ + 1]
                   [] OTHER -> [sf EXCEPT !.active = FALSE, !.stage = "raised"]
        \* upload_to_drive catches what save_files raises
        /\ pc' = IF v = "raise" THEN AfterSaveFilesRaised ELSE pc
        /\ hist' = CASE call.result.kind \in {"none", "HttpError"} ->
                            [hist EXCEPT !.failed = @ \cup {sf.pi}]
                     [] call.result.kind = "id" -> [hist EXCEPT !.resolved = @ \cup {sf.pi}]
                     [] OTHER -> hist
    /\ call' = NoCall
    /\ UNCHANGED <<clock, yesterday, folder_ids, cat, all_brand_data, excel_file, sheets,
                   drive, gi, local_files>>
    /\ UNCHANGED <<hvars, fvars, svars, cvars>>

\* for file_name in files: retry_count = 0; while retry_count < max_retries:
\*     self.upload_file(file_name, folder_id)
SaveUpload ==
    /\ pc = "save_files"
    /\ sf.stage = "upload"
    /\ call.fn = "none"
    /\ IF sf.fi > Len(sf.files)
       THEN /\ sf' = [sf EXCEPT !.pi = @ + 1, !.stage = "resolve"]
            /\ UNCHANGED <<call, hist>>
       ELSE /\ call' = UploadCall(sf.files[sf.fi], sf.folder_id)
            /\ hist' = [hist EXCEPT !.uploaded = @ \cup {<<sf.pi, sf.fi>>},
                                    !.attempts = IF sf.retry_count = 0 THEN 0 ELSE @]
            /\ UNCHANGED sf
    /\ UNCHANGED <<clock, yesterday, folder_ids, pc, cat, all_brand_data, excel_file, sheets,
                   drive, gi, local_files>>
    /\ UNCHANGED <<hvars, fvars, svars, cvars>>

\* what the while loop does when upload_file has ended: "break" on a return;
\* on an exception retry_count += 1, then "retry" while retry_count < max_retries
\* and "give_up" (log, the loop ends, next file) once retry_count == max_retries
\* (mutant: the last exception is raised out of the loop)
UploadVerdictRaise(r, retry_count) ==
    IF ~IsRaise(r) THEN "break"
    ELSE IF retry_count + 1 < max_retries THEN "retry" ELSE "raise"
UploadVerdict(r, retry_count) ==
    IF ~IsRaise(r) THEN "break"
    ELSE IF retry_count + 1 < max_retries THEN "retry" ELSE "give_up"

\* upload_file has ended for the pair the loops are at
SaveUploaded ==
    /\ pc = "save_files"
    /\ call.fn = "upload_file"
    /\ call.stage = "ret"
    /\ LET v == UploadVerdict(call.result, sf.retry_count) IN
        /\ sf' = CASE v = "retry" -> [sf EXCEPT !.retry_count = @ + 1]
                   [] v = "raise" -> [sf EXCEPT !.active = FALSE, !.stage = "raised"]
                   [] OTHER -> [sf EXCEPT !.fi = @ + 1, !.retry_count = 0]
        /\ pc' = IF v = "raise" THEN AfterSaveFilesRaised ELSE pc
        /\ hist' = IF v \in {"give_up", "raise"}
                   THEN [hist EXCEPT !.abandoned = @ \cup {<<sf.pi, sf.fi>>}]
                   ELSE hist
    /\ call' = NoCall
    /\ UNCHANGED <<clock, yesterday, folder_ids, cat, all_brand_data, excel_file, sheets,
                   drive, gi, local_files>>
    /\ UNCHANGED <<hvars, fvars, svars, cvars>>

\* try: os.remove(excel_file) except Exception: log. process_category returns
\* either way (mutant: the exception of a failed deletion leaves run)
AfterRemovePcRaise(removed) == IF removed THEN EndCategoryPc ELSE "aborted"
AfterRemovePc(removed) == EndCategoryPc

\* os.remove(excel_file) in its own try: a failure is logged; the category ends
\* (save_files' frame and the history of its call end with it)
Remove ==
    /\ pc = "remove"
    /\ \E removed \in BOOLEAN :
        /\ local_files' = IF removed THEN local_files \ {excel_file} ELSE local_files
        /\ pc' = AfterRemovePc(removed)
    /\ cat' = EndCategoryCat
    /\ hist' = [hist EXCEPT !.processed = Append(@, cat), !.tried = {}, !.resolved = {},
                            !.failed = {}, !.uploaded = {}, !.abandoned = {}, !.attempts = 0]
    /\ sf' = NoSaveFiles
    /\ UNCHANGED <<clock, yesterday, folder_ids, all_brand_data, excel_file, sheets,
                   drive, gi, call>>
    /\ UNCHANGED <<hvars, fvars, svars, cvars>>

RunIdle ==
    /\ clock = 0
    /\ yesterday = strftime(0)
    /\ folder_ids = <<>>
    /\ pc = "idle"
    /\ cat = 0
    /\ all_brand_data = <<>>
    /\ excel_file = NoFile
    /\ sheets = <<>>
    /\ drive = [parents |-> {}, folders |-> <<>>, files |-> <<>>]
    /\ gi = 0
    /\ local_files = {}
    /\ call = NoCall
    /\ sf = NoSaveFiles
    /\ hist = NoHist

\* ------------------------------------------- SavingOnDrive called directly
MaxFiles == 2       \* files in one save_files call

\* the paths a caller passes, and the lists of them
SavedFiles == {filename(automotives_data[i]) : i \in 1..NumCategories}
FileLists == UNION {[1..k -> SavedFiles] : k \in 1..MaxFiles}

\* an authenticated SavingOnDrive about to be called once; some of the paths
\* exist on the local disk
SavingInit ==
    /\ clock = 2
    /\ yesterday = strftime(0)
    /\ folder_ids = <<>>
    /\ pc = "ready"
    /\ cat = 0
    /\ all_brand_data = <<>>
    /\ excel_file = NoFile
    /\ sheets = <<>>
    /\ \E existing \in SUBSET {1, 2} : \E dated \in SUBSET existing :
        drive = [parents |-> {parent_folder_ids[i] : i \in existing},
                 folders |-> [n \in 1..Cardinality(dated) |->
                                 [name |-> strftime(clock - 1),
                                  parent |-> parent_folder_ids[IF n = 1 /\ 1 \in dated THEN 1 ELSE 2]]],
                 files |-> <<>>]
    /\ gi = 0
    /\ local_files \in SUBSET SavedFiles
    /\ call = NoCall
    /\ sf = NoSaveFiles
    /\ hist = NoHist

\* drive_saver.save_files(files)
CallSaveFiles ==
    /\ pc = "ready"
    /\ \E files \in FileLists : sf' = SaveFilesFrame(files)
    /\ pc' = "save_files"
    /\ UNCHANGED <<clock, yesterday, folder_ids, cat, all_brand_data, excel_file, sheets,
                   drive, gi, local_files, call, hist>>
    /\ UNCHANGED <<hvars, fvars, svars, cvars>>

\* save_files has returned or raised to its caller
SaveFilesEnds ==
    /\ pc = "remove"
    /\ pc' = "returned"
    /\ UNCHANGED <<clock, yesterday, folder_ids, cat, all_brand_data, excel_file, sheets,
                   drive, gi, local_files, call, sf, hist>>
    /\ UNCHANGED <<hvars, fvars, svars, cvars>>

\* drive_saver.upload_file(file_name, folder_id), folder_id possibly empty
CallUploadFile ==
    /\ pc = "ready"
    /\ \E file_name \in SavedFiles, folder_id \in 0..Len(drive.folders) :
        call' = UploadCall(file_name, folder_id)
    /\ pc' = "upload_file"
    /\ UNCHANGED <<clock, yesterday, folder_ids, cat, all_brand_data, excel_file, sheets,
                   drive, gi, local_files, sf, hist>>
    /\ UNCHANGED <<hvars, fvars, svars, cvars>>

\* upload_file has returned or raised to its caller
UploadFileEnds ==
    /\ pc = "upload_file"
    /\ call.stage = "ret"
    /\ pc' = "returned"
    /\ UNCHANGED <<clock, yesterday, folder_ids, cat, all_brand_data, excel_file, sheets,
                   drive, gi, local_files, call, sf, hist>>
    /\ UNCHANGED <<hvars, fvars, svars, cvars>>

\* ------------------------- two runs in get_or_create_folder at the same time
\* two processes, each single-threaded, share nothing but the remote store;
\* each remote call is one step, and the steps of the two interleave freely
Runs == {1, 2}

RaceIdle ==
    /\ calls = [r \in Runs |-> NoCall]
    /\ searched_first = FALSE

\* both runs call get_or_create_folder for the same date and the same parent
RaceInit ==
    /\ \E parent \in {parent_folder_ids[i] : i \in DOMAIN parent_folder_ids} :
        calls = [r \in Runs |-> GetOrCreateCall(strftime(1), parent)]
    /\ searched_first = FALSE

\* the remote store the two runs meet
RaceRunInit ==
    /\ clock = 2
    /\ yesterday = strftime(clock - 1)
    /\ folder_ids = <<>>
    /\ pc = "race"
    /\ cat = 0
    /\ all_brand_data = <<>>
    /\ excel_file = NoFile
    /\ sheets = <<>>
    /\ \E existing \in SUBSET {1, 2} : \E dated \in SUBSET existing :
        drive = [parents |-> {parent_folder_ids[i] : i \in existing},
                 folders |-> [n \in 1..Cardinality(dated) |->
                                 [name |-> strftime(clock - 1),
                                  parent |-> parent_folder_ids[IF n = 1 /\ 1 \in dated THEN 1 ELSE 2]]],
                 files |-> <<>>]
    /\ gi = 0
    /\ local_files = {}
    /\ call = NoCall
    /\ sf = NoSaveFiles
    /\ hist = NoHist

\* both runs are past a search that found nothing and neither has created yet
BothSearched(cs) == \A r \in Runs : cs[r].stage = "create" /\ cs[r].errs = <<>>

\* run r: results = self.service.files().list(...).execute()
RaceList(r) ==
    /\ pc = "race"
    /\ calls[r].stage = "list"
    /\ \E c \in ListResults(calls[r]) :
        /\ calls' = [calls EXCEPT ![r] = c]
        /\ searched_first' = (searched_first \/ BothSearched(calls'))
    /\ UNCHANGED <<hvars, fvars, rvars, svars>>

\* run r: folder = self.service.files().create(...).execute()
RaceCreate(r) ==
    /\ pc = "race"
    /\ calls[r].stage = "create"
    /\ \E o \in CreateOutcomes :
        LET made == o \in {"ok", "lost"}
            c == CASE o = "ok" -> Returns(calls[r], IdResult(Len(drive.folders) + 1))
                   [] o = "http" -> Raises(calls[r], "HttpError", gf_stop_after_attempt, "list")
                   [] OTHER -> Raises(calls[r], NetworkError, gf_stop_after_attempt, AfterCreateRetryStage)
        IN
        /\ drive' = IF made
                    THEN [drive EXCEPT !.folders = FoldersAfterCreate(@, [name |-> calls[r].name,
                                                                         parent |-> calls[r].parent])]
                    ELSE drive
        /\ calls' = [calls EXCEPT ![r] = c]
        /\ hist' = [hist EXCEPT !.lost = IF o = "lost" THEN @ + 1 ELSE @]
    /\ UNCHANGED <<clock, yesterday, folder_ids, pc, cat, all_brand_data, excel_file,
                   sheets, gi, local_files, call, sf>>
    /\ UNCHANGED searched_first
    /\ UNCHANGED <<hvars, fvars, svars>>

RaceNext == \E r \in Runs : RaceList(r) \/ RaceCreate(r)

\* the folders of the remote store with the name and parent the two runs asked for
RaceFolders ==
    {i \in DOMAIN drive.folders :
        drive.folders[i] = [name |-> calls[1].name, parent |-> calls[1].parent]}

\* C23: when both runs searched before either created and both creates then
\* succeeded at once, each run was returned a folder of its own: two folders
\* with the same name exist under the same parent.
C23_RaceDuplicates ==
    (/\ searched_first
     /\ \A r \in Runs : /\ calls[r].stage = "ret"
                         /\ calls[r].result.kind = "id"
                         /\ calls[r].errs = <<>>)
        => /\ Cardinality(RaceFolders) = 2
           /\ calls[1].result.id # calls[2].result.id
           /\ RaceFolders = {calls[1].result.id, calls[2].result.id}

\* both runs have returned and the parent holds two folders with the date's name
C23_Witness ==
    /\ searched_first
    /\ \A r \in Runs : calls[r].stage = "ret" /\ calls[r].result.kind = "id"
    /\ calls[1].name = calls[2].name
    /\ calls[1].parent = calls[2].parent
    /\ Cardinality(RaceFolders) = 2

\* the filter's own specification: any yesterday
FilterRunInit ==
    /\ clock \in 2..MaxDay
    /\ yesterday = strftime(clock - 1)
    /\ folder_ids = <<>>
    /\ pc = "idle"
    /\ cat = 0
    /\ all_brand_data = <<>>
    /\ excel_file = NoFile
    /\ sheets = <<>>
    /\ drive = [parents |-> {}, folders |-> <<>>, files |-> <<>>]
    /\ gi = 0
    /\ local_files = {}
    /\ call = NoCall
    /\ sf = NoSaveFiles
    /\ hist = NoHist

\* ------------------------------------------------- properties of the run
\* the folders of the remote store with this name under this parent
FoldersNamed(name, parent) ==
    {i \in DOMAIN drive.folders : drive.folders[i].name = name /\ drive.folders[i].parent = parent}
SaveFilesEnded == pc = "remove" /\ sf.stage \in {"returned", "raised"}
\* a date_published value that parses and whose date is the run's yesterday
IsYesterday(v) == v.kind \in {"ts", "ts_loose"} /\ <<"%Y-%m-%d", v.day>> = yesterday
Retained(cars) == SelectSeq(cars, LAMBDA car : IsYesterday(car.date_published))
BadDate(v) == v.kind \in {"garbage", "none", "date_only"}

\* C3 (as claimed): when save_files has ended and the folder of some destination
\* failed to resolve in a non-retryable way (None for a missing parent, or an
\* HttpError), every other destination was still tried, and the file was handed
\* to upload_file for each of them whose folder resolved.
C3_DestinationIndependence ==
    (SaveFilesEnded /\ hist.failed # {}) =>
        \A d \in 1..Len(parent_folder_ids) :
            d \notin hist.failed =>
                /\ d \in hist.tried
                /\ d \in hist.resolved => \A f \in 1..Len(sf.files) : <<d, f>> \in hist.uploaded

\* C4 (as claimed): the remote upload of one (file, destination folder) pair is
\* executed at most 3 times in total.
C4_AtMostThreeAttempts == hist.attempts <= 3

\* C4 (amended): save_files calls upload_file at most 3 times for one pair and
\* each call executes the remote upload at most 3 times, so the upload of one
\* pair is executed at most 9 times in total.
C4_AtMostNineAttempts ==
    /\ hist.attempts <= 9
    /\ sf.retry_count < 3
    /\ call.fn = "upload_file" => call.attempt <= 3

\* the ninth execution for one pair has failed and the pair is abandoned
C4_Witness ==
    /\ hist.attempts = 9
    /\ call.fn = "upload_file"
    /\ call.stage = "ret"
    /\ call.result = RetryError
    /\ sf.retry_count = 2

\* C5: all get_or_create_folder calls of a run for the same (name, parent), the
\* one at construction and the one of every save_files, return the same folder
\* id, and at most one folder with that name exists under that parent.
C5_FolderIdempotent ==
    /\ \A r1, r2 \in hist.returned :
        (r1.name = r2.name /\ r1.parent = r2.parent) => r1.id = r2.id
    /\ \A i, j \in DOMAIN drive.folders : drive.folders[i] = drive.folders[j] => i = j

\* construction and a save_files both resolved the same (name, parent), whose
\* folder this run created after a lost response
C5_Witness ==
    /\ hist.lost > 0
    /\ drive.files = <<>>
    /\ Len(drive.folders) = 1
    /\ \E r1, r2 \in hist.returned :
        /\ r1.by = "__init__" /\ r2.by = "save_files"
        /\ r1.name = r2.name /\ r1.parent = r2.parent

\* C6 (as claimed): a category none of whose records survives the date filter,
\* with or without brands, yields an artifact with exactly one placeholder
\* sheet, which process_category hands to upload_to_drive.
C6_EmptyCategoryArtifact ==
    (pc = "upload" /\ \A b \in DOMAIN all_brand_data : Retained(all_brand_data[b].available_cars) = <<>>)
        => /\ excel_file = filename(automotives_data[cat])
           /\ sheets = <<[sheet_name |-> NoData, rows |-> <<>>]>>

\* C7 (as claimed): when a brand holds a record whose date_published is None or
\* unparsable, save_to_excel still returns the category's artifact, and every
\* brand's retained records are the rows of its sheet.
C7_BadDateDropped ==
    (pc = "upload" /\ \E b \in DOMAIN all_brand_data :
                        \E i \in DOMAIN all_brand_data[b].available_cars :
                            BadDate(all_brand_data[b].available_cars[i].date_published))
        => /\ excel_file = filename(automotives_data[cat])
           /\ \A b \in DOMAIN all_brand_data :
                LET kept == Retained(all_brand_data[b].available_cars) IN
                kept # <<>> =>
                    \E k \in DOMAIN sheets :
                        sheets[k] = [sheet_name |-> sheet_name(all_brand_data[b].brand_title),
                                     rows |-> kept]

\* C8: filter_yesterday_data returns exactly the input records whose
\* date_published parses as a timestamp and whose date is yesterday, in input
\* order, with nothing added.
C8_FilterExact ==
    fpc = "returned" =>
        filtered_data = SelectSeq(cars_data,
                                  LAMBDA car : /\ car.date_published.kind \in {"ts", "ts_loose"}
                                               /\ car.date_published.day = clock - 1)

\* yesterday is day 2; records dated day 1, day 2 and a malformed one: only the
\* second is returned
C8_Witness ==
    /\ fpc = "returned"
    /\ clock = 3
    /\ cars_data = CarsOf(<<[kind |-> "ts", day |-> 1], [kind |-> "ts", day |-> 2],
                            [kind |-> "garbage", day |-> 0]>>)
    /\ filtered_data = <<cars_data[2]>>

\* C9 (as claimed): the date that names the remote folder in save_files is the
\* yesterday computed at construction.
C9_SingleYesterday == sf.active => sf.yesterday = yesterday

\* C10: once construction has succeeded, run reaches its completion marker
\* having processed every configured category exactly once, in order, whatever
\* failed on the way.
C10_RunCompletes ==
    (pc = "scrape" /\ cat = 1)
        ~> (pc = "done" /\ hist.processed = [i \in 1..NumCategories |-> i])

\* the run completed although the first category's artifact could not be
\* deleted and a remote call lost its response
C10_Witness ==
    /\ pc = "done"
    /\ hist.processed = [i \in 1..NumCategories |-> i]
    /\ filename(automotives_data[1]) \in local_files
    /\ hist.lost > 0

\* the while loop gives up the pair it is at: upload_file raised for the
\* max_retries-th time
GivesUpPair ==
    /\ pc = "save_files"
    /\ call.fn = "upload_file"
    /\ call.stage = "ret"
    /\ IsRaise(call.result)
    /\ sf.retry_count = max_retries - 1

\* C11: when every upload attempt for one (file, destination) pair has failed,
\* save_files does not raise: the step that gives the pair up leaves save_files
\* running at the next file of that destination, and save_files only ever
\* raises out of a folder resolution. When save_files has ended, every later
\* file was handed to upload_file for that destination, every later
\* destination was tried, and every file was handed to upload_file for each
\* later destination whose folder resolved.
C11_UploadFailureIsolated ==
    /\ [][GivesUpPair => /\ pc' = "save_files"
                          /\ sf' = [sf EXCEPT !.fi = @ + 1, !.retry_count = 0]]_vars
    /\ [][(sf.stage # "raised" /\ sf'.stage = "raised") => call.fn = "get_or_create_folder"]_vars
    /\ [](SaveFilesEnded =>
            \A p \in hist.abandoned :
                /\ \A f \in (p[2] + 1)..Len(sf.files) : <<p[1], f>> \in hist.uploaded
                /\ \A d \in (p[1] + 1)..Len(parent_folder_ids) :
                    /\ d \in hist.tried
                    /\ d \in hist.resolved =>
                            \A f \in 1..Len(sf.files) : <<d, f>> \in hist.uploaded)

\* the first file was given up at the first destination; the second file went
\* to the first destination and both files to the second
C11_Witness ==
    /\ SaveFilesEnded
    /\ sf.stage = "returned"
    /\ Len(sf.files) = 2
    /\ hist.abandoned = {<<1, 1>>}
    /\ hist.lost = 0
    /\ Len(drive.files) = 3

AllNetwork(errs) == \A i \in DOMAIN errs : errs[i] = NetworkError

C13_AtMostOneArtifact ==
    SaveFilesEnded =>
        \A i, j \in DOMAIN drive.files : drive.files[i] = drive.files[j] => i = j

\* C16: an upload_file call whose file is not on the local disk or whose folder
\* id is empty has one execution, which issues no remote call, raises nothing
\* and returns None; and when upload_file returns None to save_files, the
\* while loop is left at once and the next file is taken.
C16_InvalidUploadAbsent ==
    /\ []((call.fn = "upload_file" /\ (call.file \notin local_files \/ call.folder = 0)) =>
            /\ call.attempt = 1
            /\ call.errs = <<>>
            /\ hist.attempts = 0
            /\ call.stage = "ret" => call.result = NoneResult)
    /\ [][(pc = "save_files" /\ call.fn = "upload_file" /\ call.stage = "ret"
            /\ call.result = NoneResult) =>
                /\ pc' = "save_files"
                /\ call' = NoCall
                /\ sf' = [sf EXCEPT !.fi = @ + 1, !.retry_count = 0]
                /\ hist' = hist /\ drive' = drive]_vars

\* save_files took a file that is not on the disk to upload_file, nothing was
\* sent, and the loop is at the next file
C16_Witness ==
    /\ pc = "save_files"
    /\ sf.stage = "upload"
    /\ sf.fi = 2
    /\ sf.files[1] \notin local_files
    /\ <<sf.pi, 1>> \in hist.uploaded
    /\ hist.attempts = 0
    /\ call = NoCall
    /\ drive.files = <<>>

C25_RetryFindsCreated ==
    call.fn = "get_or_create_folder" =>
        LET there == {i \in DOMAIN drive.folders :
                        drive.folders[i] = [name |-> call.name, parent |-> call.parent]} IN
        /\ Cardinality(there) <= 1
        /\ call.stage = "create" => there = {}
        /\ (call.stage = "ret" /\ call.result.kind = "id") => there = {call.result.id}

\* the first invocation of a save_files call created the folder, lost the
\* response, searched again and returned the id of the folder it had created
C25_Witness ==
    /\ call.fn = "get_or_create_folder"
    /\ call.stage = "ret"
    /\ call.attempt = 2
    /\ call.errs = <<NetworkError>>
    /\ hist.lost = 1
    /\ drive.files = <<>>
    /\ sf.pi = 1
    /\ drive.folders = <<[name |-> call.name, parent |-> call.parent]>>
    /\ call.result = IdResult(1)

\* C21: in a run, a category's processing is at os.remove only with the
\* category's artifact generated and on the disk, no SavingOnDrive call in
\* progress, save_files not running, and the category not yet counted as
\* processed; a generated artifact always goes from upload_to_drive to os.remove,
\* directly when uploading is skipped or through save_files, which is left for
\* os.remove only, however it ended; the category ends with the os.remove step
\* and no other way; and that step, whether the file was deleted or not, counts
\* the category as processed and takes run to the next category or to its end.
C21_CleanupOnce ==
    /\ [](pc = "remove" =>
            /\ excel_file = filename(automotives_data[cat])
            /\ excel_file \in local_files
            /\ call = NoCall
            /\ ~sf.active
            /\ \A i \in DOMAIN hist.processed : hist.processed[i] # cat)
    /\ [][(pc = "upload" /\ excel_file # NoFile /\ pc' # "upload") =>
                pc' = (IF folder_ids = <<>> THEN "remove" ELSE "save_files")]_vars
    /\ [][(pc = "save_files" /\ pc' # "save_files") => pc' = "remove"]_vars
    /\ [][(pc \in {"upload", "save_files", "remove"} /\ excel_file # NoFile
              /\ hist'.processed # hist.processed) => pc = "remove"]_vars
    /\ [][pc = "remove" =>
                /\ pc' = (IF cat < NumCategories THEN "scrape" ELSE "done")
                /\ hist'.processed = Append(hist.processed, cat)
                /\ local_files' \in {local_files, local_files \ {excel_file}}]_vars

\* the first category's artifact went to save_files, no upload succeeded, its
\* deletion failed, and run is at the second category
C21_Witness ==
    /\ pc = "scrape"
    /\ cat = 2
    /\ hist.processed = <<1>>
    /\ folder_ids # <<>>
    /\ drive.files = <<>>
    /\ filename(automotives_data[1]) \in local_files

\* the phases of process_category, in the order the code goes through them
InCategory == pc \in {"scrape", "save_to_excel", "upload", "save_files", "remove"}

\* C22: run is in one category at a time, the categories before it are
\* processed, in the mapping's order, and each step to another category goes to
\* the next one and is the end of the category's cleanup (or of upload_to_drive
\* when no artifact was generated); when the harvest of a category is about to
\* start, no artifact, dataset, save_files frame or SavingOnDrive call of an
\* earlier category is left in progress. Within a harvest, the page requests
\* are ordered by brand, and every brand before the one the loop is at was
\* harvested to the end of its pagination.
C22_StrictlySequential ==
    /\ [](InCategory =>
            /\ cat \in 1..NumCategories
            /\ hist.processed = [i \in 1..(cat - 1) |-> i])
    /\ [](pc = "scrape" =>
            /\ call = NoCall
            /\ sf = NoSaveFiles
            /\ all_brand_data = <<>>
            /\ sheets = <<>>)
    /\ [][(InCategory /\ cat' # cat) =>
                /\ cat' = cat + 1
                /\ pc' = "scrape"
                /\ pc = "remove" \/ (pc = "upload" /\ excel_file = NoFile)]_vars
    /\ [](\A i, j \in DOMAIN requests : i < j => requests[i].elem <= requests[j].elem)
    /\ [](\A e \in 1..Len(brand_elements) :
            (e < elem /\ brand_elements[e].href.kind # "none") =>
                LET rs == RequestsOf(e) IN
                IF BudgetOf(e) <= 0 THEN rs = <<>>
                ELSE rs # <<>> /\ (Len(rs) = BudgetOf(e) \/ ~GotRecords(Last(rs))))
    /\ [][(requests' # requests) =>
                /\ Last(requests').elem = elem
                /\ \A i \in DOMAIN requests : requests[i].elem <= elem]_vars

\* the harvest of the second category is about to start: the first
\* category's artifact was uploaded to both destinations and deleted
C22_Witness ==
    /\ pc = "scrape"
    /\ cat = 2
    /\ hist.processed = <<1>>
    /\ Len(drive.files) = 2
    /\ local_files = {}

\* C20 (as claimed): after construction no folder is searched or created any
\* more, and every upload goes to one of the folder ids resolved at
\* construction.
C20_FoldersResolvedOnce ==
    pc = "save_files" =>
        /\ call.fn # "get_or_create_folder"
        /\ call.fn = "upload_file" => \E i \in DOMAIN folder_ids : folder_ids[i] = call.folder

\* ------------------------------------------------------- specifications
RunNext ==
    \/ Tick \/ Construct \/ Authenticate \/ FoldersCall \/ FoldersReturn
    \/ ListFolders \/ CreateFolder \/ ExecUpload
    \/ Scrape \/ SaveToExcel \/ UploadToDrive
    \/ SaveResolve \/ SaveResolved \/ SaveUpload \/ SaveUploaded \/ Remove

Init == HarvestIdle /\ FilterIdle /\ SheetIdle /\ RaceIdle /\ RunInit
Next == RunNext
Spec == Init /\ [][Next]_vars
FairSpec == Spec /\ WF_vars(Next)

InitHarvest == HarvestInit /\ FilterIdle /\ SheetIdle /\ RunIdle /\ RaceIdle
SpecHarvest == InitHarvest /\ [][HarvestNext]_vars

InitScenario == ScenarioInit /\ FilterIdle /\ SheetIdle /\ RunIdle /\ RaceIdle
SpecScenario == InitScenario /\ [][HarvestNext]_vars

InitSaving == HarvestIdle /\ FilterIdle /\ SheetIdle /\ SavingInit /\ RaceIdle
SavingNext ==
    \/ CallSaveFiles \/ SaveFilesEnds \/ CallUploadFile \/ UploadFileEnds
    \/ ListFolders \/ CreateFolder \/ ExecUpload
    \/ SaveResolve \/ SaveResolved \/ SaveUpload \/ SaveUploaded
SpecSaving == InitSaving /\ [][SavingNext]_vars

InitFilter == HarvestIdle /\ FilterInit /\ SheetIdle /\ FilterRunInit /\ RaceIdle
SpecFilter == InitFilter /\ [][FilterCall]_vars

InitSheet == HarvestIdle /\ FilterIdle /\ SheetInit /\ RunIdle /\ RaceIdle
SpecSheet == InitSheet /\ [][SheetNameCall]_vars

\* a run, or one harvest of a run seen page by page
InitPipeline == Init \/ InitHarvest
PipelineNext == RunNext \/ HarvestNext
SpecPipeline == InitPipeline /\ [][PipelineNext]_vars

InitRace == HarvestIdle /\ FilterIdle /\ SheetIdle /\ RaceInit /\ RaceRunInit
SpecRace == InitRace /\ [][RaceNext]_vars
====
